---- MODULE Spec2Model ----
(***************************************************************************)
(* Battery dispatch optimizer (Factlabel/battery_optimizer).               *)
(*                                                                         *)
(* Three variants of the same per-window MILP orchestration are modelled:  *)
(*   "v1"        desktop OptimizationEngine       (optimization_engine.py) *)
(*   "v2"        desktop OptimizationEngineV2  (optimization_engine_v2.py) *)
(*   "streamlit" run_optimization                  (src/optimization.py)   *)
(*                                                                         *)
(* Units.  Energies are integers in Wh (0.001 kWh), so round(x, 3) rounds  *)
(* to whole Wh and round(x, 2) to multiples of 10 Wh.  Loss rates are in   *)
(* tenths (1 = 0.1).  The continuous MILP variables charge[i] and          *)
(* discharge[i] in [0, 1] take values on the grid FractionLevels/10.       *)
(* Prices are integers; NaN is a distinguished value.                      *)
(*                                                                         *)
(* The MILP backend is modelled as returning ANY optimal solution of the   *)
(* window problem (or failing); the feasible set and the objective are     *)
(* those the code builds.                                                  *)
(***************************************************************************)
EXTENDS Integers, Sequences, FiniteSets, TLC

\* ------------------------------------------------------------------ bounds
\* Largest number of rows of the price series.
MaxTotalSlots == 4

\* -------------------------------------------------------- program constants
\* TAX = 1.1 as TaxNum / TaxDen.
TaxNum == 11
TaxDen == 10
\* bigM of the EPRX1 SoC band relaxation (kWh).
bigM == 999999
\* EPRX1 SoC band 0.4 .. 0.6 of capacity, in tenths.
BandLowTenths == 4
BandHighTenths == 6

\* ----------------------------------------------------------------- helpers
NaN == 0 - 1

Min(a, b) == IF a < b THEN a ELSE b
Max(a, b) == IF a > b THEN a ELSE b

RECURSIVE SumSeq(_)
SumSeq(s) == IF s = <<>> THEN 0 ELSE Head(s) + SumSeq(Tail(s))

\* Python round(): round half to even, here of the rational n/den to an integer.
RoundHalfEven(n, den) ==
    LET q == n \div den
        r == n % den
    IN  IF 2 * r > den \/ (2 * r = den /\ q % 2 = 1) THEN q + 1 ELSE q

\* round(x, 3) of x = n/den Wh: to a whole Wh.
Round3(n, den) == RoundHalfEven(n, den)
\* round(x, 2) of x Wh: to a multiple of 10 Wh.
Round2(x) == 10 * RoundHalfEven(x, 10)

\* pd.isna(x) or x == 0
InvalidPrice(x) == x = NaN \/ x = 0
\* "if pd.isna(x): x = 0.0"
NaNToZero(x) == IF x = NaN THEN 0 ELSE x

\* --------------------------------------------------------------- the inputs
Engines == {"v1", "v2", "streamlit"}

\* Grid of the continuous variables charge[i], discharge[i], in tenths.
FractionLevels == {0, 5, 10}

\* One row of the price series: the predictions drive the MILP, the actual
\* prices and the imbalance price drive the settlement (yen per kWh or kW).
PriceRow(jp, ja, e1p, e1a, e3p, e3a, imb) ==
    [ JEPX_prediction |-> jp, JEPX_actual |-> ja,
      EPRX1_prediction |-> e1p, EPRX1_actual |-> e1a,
      EPRX3_prediction |-> e3p, EPRX3_actual |-> e3a, imbalance |-> imb ]

PriceRows ==
    { PriceRow(0, 1, 0, 0, 0, 0, 0),
      PriceRow(1, 1, NaN, NaN, NaN, NaN, 1),
      PriceRow(3, 2, 0, 0, 0, 0, 3),
      PriceRow(2, 2, 2, 3, 2, 1, 2) }

\* A series with a price spread and no reserve-market prices.
ArbitrageRows ==
    { PriceRow(10, 10, 0, 0, 0, 0, 0),
      PriceRow(20, 20, 0, 0, 0, 0, 0) }

\* A key that the params dictionary does not hold.
KeyMissing == 0 - 1

\* WHEELING_DATA["areas"], cut down to two (area, voltage) pairs and to the
\* loss_rate entry, in thousandths.
WHEELING_DATA ==
    [ Tokyo |-> [HV |-> [loss_rate |-> 37]],
      Tohoku |-> [LV |-> [loss_rate |-> 85]] ]

\* Configurations (params); energies in kWh as the GUI gives them,
\* battery_loss_rate in tenths, eprx3_activation_rate in tens of percent.
\* v1_price_ratio is at its default of 100 percent throughout.
\* loss_rate is not a key of the GUI's dictionary: it stands for
\* wheeling_data["loss_rate"] (thousandths), which run() looks up and passes
\* along with params; it is bound when the run starts.
BaseParams ==
    [ target_area_name |-> "Tokyo",
      voltage_type |-> "HV",
      battery_power_kW |-> 2, battery_capacity_kWh |-> 2, initial_soc_kwh |-> 1,
      battery_loss_rate |-> 1, loss_rate |-> KeyMissing,
      daily_cycle_limit |-> 0, yearly_cycle_limit |-> 0,
      eprx1_block_size |-> 1, eprx1_block_cooldown |-> 2,
      max_daily_eprx1_slots |-> 0, forecast_period |-> 2,
      eprx3_activation_rate |-> 5 ]

half_power_kWh(p) == p.battery_power_kW * 500
Capacity(p) == p.battery_capacity_kWh * 1000

\* ------------------------------------------------- the window MILP (solver)
\* A solution assigns to each slot the selected binary (exactly one of the
\* five is 1), the values of charge[i] and discharge[i] (tenths), and the
\* set of block_start positions.  Slots are 0-based as in the code; rows
\* and plans are sequences, so slot i is element i + 1.

\* is_in_block[i] == lpSum(block_start[x] for the x whose block covers i)
InBlockSum(starts, i, M) ==
    Cardinality({x \in Max(0, i - (M - 1)) .. i : x + M - 1 >= i /\ x \in starts})

\* Variant of BlockStartsOK without the cooldown constraint.
BlockStartsOK_NoCooldown(starts, rows, p) ==
    LET n == Len(rows)
        M == p.eprx1_block_size
    IN  /\ \A i \in starts :
              /\ ~(i > n - M)
              /\ \A k \in i .. (Min(i + M, n) - 1) :
                    ~InvalidPrice(rows[k + 1].EPRX1_prediction)
        /\ \A i \in 0 .. (n - 1) : InBlockSum(starts, i, M) <= 1
        /\ (p.max_daily_eprx1_slots > 0 =>
              SumSeq([k \in 1 .. n |-> InBlockSum(starts, k - 1, M)])
                  <= p.max_daily_eprx1_slots)

\* Variant of BlockStartsOK that tests the EPRX1 price of the block's first
\* slot only.
BlockStartsOK_FirstSlotGated(starts, rows, p) ==
    LET n == Len(rows)
        M == p.eprx1_block_size
        C == p.eprx1_block_cooldown
    IN  /\ \A i \in starts :
              /\ \A j \in (i + 1) .. (Min(n, i + M + C) - 1) : j \notin starts
              /\ ~(i > n - M)
              /\ ~InvalidPrice(rows[i + 1].EPRX1_prediction)
        /\ \A i \in 0 .. (n - 1) : InBlockSum(starts, i, M) <= 1
        /\ (p.max_daily_eprx1_slots > 0 =>
              SumSeq([k \in 1 .. n |-> InBlockSum(starts, k - 1, M)])
                  <= p.max_daily_eprx1_slots)

\* Cooldown, end-of-window and EPRX1 price gating of block_start.
BlockStartsOK(starts, rows, p) ==
    LET n == Len(rows)
        M == p.eprx1_block_size
        C == p.eprx1_block_cooldown
    IN  /\ \A i \in starts :
              /\ \A j \in (i + 1) .. (Min(n, i + M + C) - 1) : j \notin starts
              /\ ~(i > n - M)
              /\ \A k \in i .. (Min(i + M, n) - 1) :
                    ~InvalidPrice(rows[k + 1].EPRX1_prediction)
        /\ \A i \in 0 .. (n - 1) : InBlockSum(starts, i, M) <= 1
        /\ (p.max_daily_eprx1_slots > 0 =>
              SumSeq([k \in 1 .. n |-> InBlockSum(starts, k - 1, M)])
                  <= p.max_daily_eprx1_slots)

\* Variant of SocBandOK without the big-M relaxation: the band binds in
\* every slot.
SocBandOK_EverySlot(soc, in_block, p) ==
    /\ 10 * soc >= BandLowTenths * Capacity(p)
    /\ 10 * soc <= BandHighTenths * Capacity(p)

\* Variant of SocBandOK without the band.
SocBandOK_Relaxed(soc, in_block, p) == TRUE

\* EPRX1 SoC band with big-M relaxation, on battery_soc[i] (start of slot i).
SocBandOK(soc, in_block, p) ==
    /\ 10 * soc >= BandLowTenths * Capacity(p) - (1 - in_block) * bigM * 1000
    /\ 10 * soc <= BandHighTenths * Capacity(p) + (1 - in_block) * bigM * 1000

\* Energy moved by one slot's variables: the SoC transition constraint.
\* Variant of SocDelta in which an eprx3 slot takes nothing from the battery.
SocDelta_Eprx3Free(o, p) ==
    (o.charge * half_power_kWh(p)) \div 10 - (o.discharge * half_power_kWh(p)) \div 10

SocDelta(o, p) ==
    (o.charge * half_power_kWh(p)) \div 10
    - (o.discharge * half_power_kWh(p)) \div 10
    - (IF o.sel = "is_eprx3" THEN half_power_kWh(p) ELSE 0)

Choice(sel, c, d) == [sel |-> sel, charge |-> c, discharge |-> d]

\* Assignments of slot i's variables allowed at battery_soc[i] = soc.
SlotChoices(i, soc, starts, rows, p) ==
    LET inb == InBlockSum(starts, i, p.eprx1_block_size)
        all == IF inb = 1
               THEN {Choice("is_in_block", 0, 0)}
               ELSE {Choice("is_idle", 0, 0)}
                    \cup {Choice("is_charge", c, 0) : c \in FractionLevels}
                    \cup {Choice("is_discharge", 0, d) : d \in FractionLevels}
                    \cup (IF InvalidPrice(rows[i + 1].EPRX3_prediction)
                          THEN {} ELSE {Choice("is_eprx3", 0, 0)})
    IN  {o \in all :
            /\ SocBandOK(soc, inb, p)
            /\ soc + SocDelta(o, p) >= 0
            /\ soc + SocDelta(o, p) <= Capacity(p)}

RECURSIVE PlansFrom(_, _, _, _, _)
PlansFrom(i, soc, starts, rows, p) ==
    IF i = Len(rows) THEN {<<>>}
    ELSE UNION { { <<o>> \o t : t \in PlansFrom(i + 1, soc + SocDelta(o, p), starts, rows, p) }
                 : o \in SlotChoices(i, soc, starts, rows, p) }

\* Variant of DailyLimitOK without the cap.
DailyLimitOK_Unlimited(plan, p) == TRUE

\* Daily cycle cap on the window's charged energy.
DailyLimitOK(plan, p) ==
    p.daily_cycle_limit > 0 =>
        SumSeq([k \in 1 .. Len(plan) |-> plan[k].charge * half_power_kWh(p)])
            <= 10 * p.daily_cycle_limit * Capacity(p)

\* battery_soc must start inside its bounds [0, capacity].
InitialSocOK(initial_soc, p) == initial_soc >= 0 /\ initial_soc <= Capacity(p)

FeasiblePlans(rows, p, initial_soc) ==
    IF ~InitialSocOK(initial_soc, p) THEN {}
    ELSE UNION { { [starts |-> s, slots |-> pl] :
                     pl \in {q \in PlansFrom(0, initial_soc, s, rows, p) : DailyLimitOK(q, p)} }
                 : s \in {t \in SUBSET (0 .. (Len(rows) - 1)) : BlockStartsOK(t, rows, p)} }

\* Objective of one slot, in units of 1 / (4 * TaxDen * 10 * 10 *
\* (1000 - loss_rate)) yen so that it is an integer (energies are multiples
\* of 250 Wh).  engine "v2" weights the EPRX3 kWh term by the activation
\* rate (tens of percent), which adds a factor 10 to every term.
SlotProfit(o, row, p, engine) ==
    LET H == half_power_kWh(p) \div 250
        P == p.battery_power_kW * 4
        w == p.loss_rate
        b == p.battery_loss_rate
        jpred == NaNToZero(row.JEPX_prediction)
        e1pred == NaNToZero(row.EPRX1_prediction)
        e3pred == NaNToZero(row.EPRX3_prediction)
        imb == NaNToZero(row.imbalance)
        c_kwh == (o.charge * H) \div 10
        d_kwh == (o.discharge * H) \div 10
        cost_c == jpred * c_kwh * 10 * TaxDen * 1000
        rev_d == jpred * d_kwh * (10 - b) * TaxDen * (1000 - w)
        rev_e1 == IF o.sel = "is_in_block"
                  THEN e1pred * P * TaxDen * 10 * (1000 - w)
                  ELSE 0
        rate == IF engine = "v2" THEN p.eprx3_activation_rate ELSE 10
        rev_e3 == IF o.sel = "is_eprx3"
                  THEN TaxNum * (1000 - w)
                       * (P * e3pred * 10 * 10 + H * (10 - b) * imb * rate)
                  ELSE 0
    IN  10 * (rev_d + rev_e1 - cost_c) + rev_e3

Objective(plan, rows, p, engine) ==
    SumSeq([k \in 1 .. Len(rows) |-> SlotProfit(plan.slots[k], rows[k], p, engine)])

\* The solutions the backend may return with status Optimal.
OptimalPlans(rows, p, initial_soc, engine) ==
    LET feas == FeasiblePlans(rows, p, initial_soc)
        vals == {Objective(pl, rows, p, engine) : pl \in feas}
        best == CHOOSE v \in vals : \A u \in vals : u <= v
    IN  IF feas = {} THEN {} ELSE {pl \in feas : Objective(pl, rows, p, engine) = best}

\* battery_soc[i] of a solution, i in 0 .. n.
RECURSIVE SolverSoc(_, _, _, _)
SolverSoc(plan, i, initial_soc, p) ==
    IF i = 0 THEN initial_soc
    ELSE SolverSoc(plan, i - 1, initial_soc, p) + SocDelta(plan.slots[i], p)

\* ------------------------------------------------ extraction of the results
\* The action read back from the solved binaries.  The desktop engines test
\* eprx1 > eprx3 > charge (value above THRESHOLD) > discharge (same) > idle;
\* run_optimization tests eprx1 > charge > discharge > eprx3 > idle on the
\* binaries alone.
ActionOf(o, engine) ==
    IF engine = "streamlit"
    THEN CASE o.sel = "is_in_block" -> "eprx1"
           [] o.sel = "is_charge" -> "charge"
           [] o.sel = "is_discharge" -> "discharge"
           [] o.sel = "is_eprx3" -> "eprx3"
           [] OTHER -> "idle"
    ELSE CASE o.sel = "is_in_block" -> "eprx1"
           [] o.sel = "is_eprx3" -> "eprx3"
           [] o.sel = "is_charge" /\ o.charge > 0 -> "charge"
           [] o.sel = "is_discharge" /\ o.discharge > 0 -> "discharge"
           [] OTHER -> "idle"

\* Variant: a discharge delivers all the energy it takes from the battery.
EnergyFlows_Lossless(action, o, p, activated) ==
    LET H == half_power_kWh(p)
    IN  CASE action = "charge" -> <<o.charge * H * 10, o.charge * H * 10, 0>>
          [] action = "discharge" -> <<0, o.discharge * H * 10, 0>>
          [] action = "eprx3" /\ activated -> <<0, H * 10 * 10, 0>>
          [] OTHER -> <<0, 0, 0>>

\* Energy flows of one slot: <<c_kwh, effective_kwh, loss_kwh>> as exact
\* rationals over the denominator 100 (Wh).  activated is the V2 EPRX3
\* activation draw (always TRUE for the other engines).
EnergyFlows(action, o, p, activated) ==
    LET H == half_power_kWh(p)
        b == p.battery_loss_rate
    IN  CASE action = "charge" -> <<o.charge * H * 10, o.charge * H * 10, 0>>
          [] action = "discharge" ->
                <<0, o.discharge * H * (10 - b), o.discharge * H * b>>
          [] action = "eprx3" /\ activated -> <<0, H * 10 * (10 - b), H * 10 * b>>
          [] OTHER -> <<0, 0, 0>>

\* V2's separately tracked SoC: actual_soc[i] of the window, i in 0 .. n,
\* clamped into [0, capacity] after every slot.
ClampSoc_Unclamped(next_soc, p) == next_soc

ClampSoc(next_soc, p) == Max(0, Min(Capacity(p), next_soc))

RECURSIVE ActualSoc(_, _, _, _, _)
ActualSoc(plan, acts, i, initial_soc, p) ==
    IF i = 0 THEN initial_soc
    ELSE LET previous_soc == ActualSoc(plan, acts, i - 1, initial_soc, p)
             action == ActionOf(plan.slots[i], "v2")
             fl == EnergyFlows(action, plan.slots[i], p, acts[i])
             next_soc == CASE action = "charge" -> previous_soc + fl[1] \div 100
                           [] action \in {"discharge", "eprx3"} ->
                                 previous_soc - (fl[2] + fl[3]) \div 100
                           [] OTHER -> previous_soc
         IN  ClampSoc(next_soc, p)

\* The SoC reported in battery_level_kWh after slot i (1-based here).
ReportedSoc(plan, acts, i, initial_soc, p, engine) ==
    IF engine = "v2" THEN ActualSoc(plan, acts, i, initial_soc, p)
    ELSE SolverSoc(plan, i, initial_soc, p)

\* Variant of calculate_slot_pnl that pays the EPRX1 capacity price in
\* every slot.
calculate_slot_pnl_AlwaysEprx1(action, fl, row, p) ==
    LET j_a == NaNToZero(row.JEPX_actual)
        e1_a == NaNToZero(row.EPRX1_actual)
        e3_a == NaNToZero(row.EPRX3_actual)
        imb_a == NaNToZero(row.imbalance)
        slot_jepx_pnl ==
            CASE action = "charge" ->
                    0 - RoundHalfEven(j_a * TaxNum * fl[1], 1000 * (1000 - p.loss_rate))
              [] action = "discharge" ->
                    RoundHalfEven(j_a * TaxNum * fl[2], TaxDen * 100 * 1000)
              [] OTHER -> 0
        slot_eprx1_pnl == RoundHalfEven(e1_a * TaxNum * p.battery_power_kW, TaxDen)
        slot_eprx3_pnl ==
            IF action = "eprx3"
            THEN RoundHalfEven(TaxNum * (p.battery_power_kW * e3_a * 100000 + fl[2] * imb_a),
                               TaxDen * 100000)
            ELSE 0
    IN  [ JEPX_PnL |-> slot_jepx_pnl, EPRX1_PnL |-> slot_eprx1_pnl,
          EPRX3_PnL |-> slot_eprx3_pnl,
          Total_Daily_PnL |-> slot_jepx_pnl + slot_eprx1_pnl + slot_eprx3_pnl ]

\* _calculate_slot_pnl / _calculate_slot_pnl_v2 / the settlement lines of
\* run_optimization: the slot's PnL from the actual prices, in yen, each
\* component passed through round().  fl holds the slot's energy flows
\* (denominator 100 Wh), w is the wheeling loss rate (thousandths).
\* The rounding is done on the exact value.
calculate_slot_pnl(action, fl, row, p) ==
    LET j_a == NaNToZero(row.JEPX_actual)
        e1_a == NaNToZero(row.EPRX1_actual)
        e3_a == NaNToZero(row.EPRX3_actual)
        imb_a == NaNToZero(row.imbalance)
        slot_jepx_pnl ==
            CASE action = "charge" ->
                    0 - RoundHalfEven(j_a * TaxNum * fl[1], 1000 * (1000 - p.loss_rate))
              [] action = "discharge" ->
                    RoundHalfEven(j_a * TaxNum * fl[2], TaxDen * 100 * 1000)
              [] OTHER -> 0
        slot_eprx1_pnl ==
            IF action = "eprx1"
            THEN RoundHalfEven(e1_a * TaxNum * p.battery_power_kW, TaxDen)
            ELSE 0
        slot_eprx3_pnl ==
            IF action = "eprx3"
            THEN RoundHalfEven(TaxNum * (p.battery_power_kW * e3_a * 100000 + fl[2] * imb_a),
                               TaxDen * 100000)
            ELSE 0
    IN  [ JEPX_PnL |-> slot_jepx_pnl, EPRX1_PnL |-> slot_eprx1_pnl,
          EPRX3_PnL |-> slot_eprx3_pnl,
          Total_Daily_PnL |-> slot_jepx_pnl + slot_eprx1_pnl + slot_eprx3_pnl ]

\* "d_kwh = discharge_kWh / (1 - battery_loss_rate)" in the desktop engines'
\* PnL of a discharge slot divides by zero when battery_loss_rate is 1.
PnlRaises(plan, p, e) ==
    /\ e \in {"v1", "v2"}
    /\ p.battery_loss_rate = 10
    /\ \E i \in 1 .. Len(plan.slots) : ActionOf(plan.slots[i], e) = "discharge"

\* Variant of SlotResult whose discharge_kWh is not conditioned on the action.
SlotResult_Ungated(plan, acts, i, rows, initial_soc, p, engine, day) ==
    LET o == plan.slots[i]
        action == ActionOf(o, engine)
        fl == EnergyFlows(action, o, p, acts[i])
        pnl_data == calculate_slot_pnl(action, fl, rows[i], p)
    IN  [ day |-> day, date |-> rows[i].date, slot |-> rows[i].slot, action |-> action,
          battery_level_kWh |-> Round2(ReportedSoc(plan, acts, i, initial_soc, p, engine)),
          charge_kWh |-> IF action = "charge" THEN Round3(fl[1], 100) ELSE 0,
          discharge_kWh |-> Round3(fl[2], 100),
          EPRX3_kWh |-> IF action = "eprx3" /\ acts[i] THEN Round3(fl[2], 100) ELSE 0,
          loss_kWh |-> Round3(fl[3], 100),
          JEPX_PnL |-> pnl_data.JEPX_PnL, EPRX1_PnL |-> pnl_data.EPRX1_PnL,
          EPRX3_PnL |-> pnl_data.EPRX3_PnL, Total_Daily_PnL |-> pnl_data.Total_Daily_PnL,
          EPRX1_prediction |-> NaNToZero(rows[i].EPRX1_prediction),
          EPRX3_prediction |-> NaNToZero(rows[i].EPRX3_prediction) ]

\* One result row (SlotDecision).
SlotResult(plan, acts, i, rows, initial_soc, p, engine, day) ==
    LET o == plan.slots[i]
        action == ActionOf(o, engine)
        fl == EnergyFlows(action, o, p, acts[i])
        pnl_data == calculate_slot_pnl(action, fl, rows[i], p)
    IN  [ day |-> day, date |-> rows[i].date, slot |-> rows[i].slot, action |-> action,
          battery_level_kWh |-> Round2(ReportedSoc(plan, acts, i, initial_soc, p, engine)),
          charge_kWh |-> IF action = "charge" THEN Round3(fl[1], 100) ELSE 0,
          discharge_kWh |-> IF action = "discharge" THEN Round3(fl[2], 100) ELSE 0,
          EPRX3_kWh |-> IF action = "eprx3" /\ acts[i] THEN Round3(fl[2], 100) ELSE 0,
          loss_kWh |-> Round3(fl[3], 100),
          JEPX_PnL |-> pnl_data.JEPX_PnL, EPRX1_PnL |-> pnl_data.EPRX1_PnL,
          EPRX3_PnL |-> pnl_data.EPRX3_PnL, Total_Daily_PnL |-> pnl_data.Total_Daily_PnL,
          EPRX1_prediction |-> NaNToZero(rows[i].EPRX1_prediction),
          EPRX3_prediction |-> NaNToZero(rows[i].EPRX3_prediction) ]

DayResults(plan, acts, rows, initial_soc, p, engine, day) ==
    [i \in 1 .. Len(rows) |-> SlotResult(plan, acts, i, rows, initial_soc, p, engine, day)]

\* Variant of FinalSoc that hands on the solver's closing SoC.
FinalSoc_Solver(plan, acts, n, initial_soc, p, engine) ==
    SolverSoc(plan, n, initial_soc, p)

\* Variant of FinalSoc that loses the window's closing SoC.
FinalSoc_Reset(plan, acts, n, initial_soc, p, engine) == 0

\* SoC handed to the next window.
FinalSoc(plan, acts, n, initial_soc, p, engine) ==
    IF engine = "v2" THEN ActualSoc(plan, acts, n, initial_soc, p)
    ELSE SolverSoc(plan, n, initial_soc, p)

\* The desktop engines' debug logging of the first three slots of the first
\* two days formats c_kwh, a local that the discharge branch never assigns:
\* it raises UnboundLocalError when every slot so far was a discharge.
DebugLogged(d, e) == e \in {"v1", "v2"} /\ d < 2

DebugLogRaises(plan, d, e) ==
    /\ DebugLogged(d, e)
    /\ \E i \in 1 .. Min(3, Len(plan.slots)) :
          \A k \in 1 .. i : ActionOf(plan.slots[k], e) = "discharge"

\* Variant: every engine draws for its eprx3 slots.
ActivationDraws_EveryEngine(plan, p, engine) ==
    { a \in [1 .. Len(plan.slots) -> BOOLEAN] :
        \A i \in 1 .. Len(plan.slots) :
            \/ a[i]
            \/ /\ ActionOf(plan.slots[i], engine) = "eprx3"
               /\ p.eprx3_activation_rate < 10 }

\* The EPRX3 activation draws of one window: random.random() * 100 <= rate.
\* Only V2 draws, and only for slots whose action is eprx3.
ActivationDraws(plan, p, engine) ==
    { a \in [1 .. Len(plan.slots) -> BOOLEAN] :
        \A i \in 1 .. Len(plan.slots) :
            \/ a[i]
            \/ /\ engine = "v2"
               /\ ActionOf(plan.slots[i], engine) = "eprx3"
               /\ p.eprx3_activation_rate < 10 }

\* Charged energy of the window as the orchestrator counts it (Wh).
DayChargeWh(results) == SumSeq([i \in 1 .. Len(results) |-> results[i].charge_kWh])

\* ---------------------------------------------------------------- the state
Configs ==
    { BaseParams,
      [BaseParams EXCEPT !.eprx1_block_cooldown = 0, !.forecast_period = 3,
                         !.eprx3_activation_rate = 10],
      [BaseParams EXCEPT !.eprx1_block_size = 2, !.forecast_period = 3],
      [BaseParams EXCEPT !.battery_capacity_kWh = 1, !.initial_soc_kwh = KeyMissing,
                         !.forecast_period = 1, !.yearly_cycle_limit = 1],
      [BaseParams EXCEPT !.battery_capacity_kWh = 1, !.initial_soc_kwh = KeyMissing,
                         !.forecast_period = 3, !.daily_cycle_limit = 1,
                         !.target_area_name = "Tohoku", !.voltage_type = "LV"] }

\* Configurations naming an (area, voltage) pair that WHEELING_DATA does not
\* hold: an unknown voltage class of a known area, and an unknown area.
AbsentTariffConfigs ==
    { [BaseParams EXCEPT !.voltage_type = "EHV", !.forecast_period = 3],
      [BaseParams EXCEPT !.target_area_name = "Okinawa", !.forecast_period = 3,
                         !.battery_capacity_kWh = 1] }

\* Configurations with a battery parameter on or beyond the edge of its range.
OutOfRangeConfigs ==
    { [BaseParams EXCEPT !.battery_power_kW = 0],
      [BaseParams EXCEPT !.battery_capacity_kWh = 0],
      [BaseParams EXCEPT !.battery_loss_rate = 0 - 1],
      [BaseParams EXCEPT !.battery_loss_rate = 11],
      [BaseParams EXCEPT !.battery_loss_rate = 10, !.forecast_period = 3] }

\* The columns of the price series.
required_cols ==
    { "date", "slot", "JEPX_prediction", "JEPX_actual", "EPRX1_prediction",
      "EPRX3_prediction", "EPRX1_actual", "EPRX3_actual", "imbalance" }
critical_cols == {"date", "slot", "JEPX_prediction"}

\* A price series (price_data / df_all): which rows it is made of, the
\* columns it has, whether its rows come sorted by (date, slot) or in
\* reverse, and whether it has no rows at all.
FullData == [rows |-> "mixed", columns |-> required_cols, sorted |-> TRUE, empty |-> FALSE]

OtherData ==
    { [FullData EXCEPT !.rows = "arbitrage"],
      [FullData EXCEPT !.sorted = FALSE],
      [FullData EXCEPT !.columns = critical_cols],
      [FullData EXCEPT !.columns = required_cols \ {"EPRX3_actual", "imbalance"}],
      [FullData EXCEPT !.columns = required_cols \ {"JEPX_prediction"}],
      [FullData EXCEPT !.columns = required_cols \ {"date", "EPRX1_actual"}],
      [FullData EXCEPT !.empty = TRUE] }

\* The inputs of a run: parameters, series, and the number of rows of the
\* series.  The out-of-range configurations reach the desktop engines only
\* (the Streamlit form bounds its number inputs); the series other than
\* FullData are run with BaseParams.
Inputs(e) ==
    { [params |-> c, price_data |-> FullData, total_slots |-> n] :
        c \in Configs, n \in (MaxTotalSlots - 1) .. MaxTotalSlots }
    \cup { [params |-> c, price_data |-> FullData, total_slots |-> MaxTotalSlots - 1] :
              c \in AbsentTariffConfigs
                      \cup (IF e = "streamlit" THEN {} ELSE OutOfRangeConfigs) }
    \cup { [params |-> BaseParams, price_data |-> d,
            total_slots |-> IF d.empty THEN 0 ELSE MaxTotalSlots - 1] : d \in OtherData }

VARIABLES
    engine,               \* which variant runs
    params,               \* optimization_params (and wheeling_data["loss_rate"])
    price_data,           \* the price series handed to the run
    total_slots,          \* len(df_all)
    pc,                   \* "ready", "started", "loop", "after_loop", "completed",
                          \* "failed", "rejected"
    day_idx,              \* loop variable of the daily loop
    carry_over_soc,       \* carry_over_soc / current_soc (Wh)
    total_charge,         \* total_cycles_used * capacity (Wh)
    all_transactions,     \* all_transactions / all_results
    failed_days,          \* the windows that failed: [day, kind]
    is_cancelled,         \* the engine thread's cancellation flag
    cycles_after_day,     \* day_idx |-> total_charge at the end of that window
    solved,               \* the window problem solved last: rows, solution, opening SoC
    error_msg,            \* what the error shown to the caller is about ("" if none)
    optimization_results, \* what the caller holds after the run
    signals               \* progress_updated / optimization_completed /
                          \* optimization_failed emissions of the engine thread, in order

vars == <<engine, params, price_data, total_slots, pc, day_idx, carry_over_soc,
          total_charge, all_transactions, failed_days, is_cancelled, cycles_after_day,
          solved, error_msg, optimization_results, signals>>

\* ------------------------------------------------------- summaries (desktop)
\* The calendar of the model: date 0 is January 31st, date d is d days later.
MonthOf(date) == IF date = 0 THEN "2024-01" ELSE "2024-02"

\* _generate_summary: the aggregate of the rows' Total_Daily_PnL; an empty
\* dictionary when there are no rows.
generate_summary(results) ==
    IF results = <<>> THEN <<>>
    ELSE [ Total_Daily_PnL |->
               SumSeq([k \in 1 .. Len(results) |-> results[k].Total_Daily_PnL]),
           Total_Slots |-> Len(results) ]

\* The rows of one group of df.groupby("month").
MonthGroup(results, month) ==
    SelectSeq(results, LAMBDA r : MonthOf(r.date) = month)

\* Variant of generate_monthly_summary that reports the first month only.
generate_monthly_summary_FirstMonth(results) ==
    IF MonthGroup(results, "2024-01") = <<>> THEN <<>>
    ELSE << [ Month |-> "2024-01",
              Total_Monthly_PnL |->
                  SumSeq([k \in 1 .. Len(MonthGroup(results, "2024-01")) |->
                             MonthGroup(results, "2024-01")[k].Total_Daily_PnL]) ] >>

\* _generate_monthly_summary: one row per month that has result rows, in
\* month order, with Total_Monthly_PnL = round(sum of Total_Daily_PnL).
generate_monthly_summary(results) ==
    LET MonthRow(month) ==
            LET group == MonthGroup(results, month)
            IN  IF group = <<>> THEN <<>>
                ELSE << [ Month |-> month,
                          Total_Monthly_PnL |->
                              RoundHalfEven(SumSeq([k \in 1 .. Len(group) |->
                                                       group[k].Total_Daily_PnL]), 1) ] >>
    IN  MonthRow("2024-01") \o MonthRow("2024-02")

\* What the caller holds: nothing (None), or the rows handed over with the
\* summaries that run() computes from them.
NoResults == [held |-> FALSE, results |-> <<>>, summary |-> generate_summary(<<>>),
              monthly_summary |-> <<>>]
Results(rows) ==
    [held |-> TRUE, results |-> rows, summary |-> generate_summary(rows),
     monthly_summary |-> generate_monthly_summary(rows)]

\* ------------------------------------------------------------ the run setup
\* validate_optimization_params (MainWindow.run_optimization calls it before
\* it creates the engine): TRUE when the parameters are accepted.
validate_optimization_params(p) ==
    /\ ~(p.battery_power_kW <= 0)
    /\ ~(p.battery_capacity_kWh <= 0)
    /\ (0 <= p.battery_loss_rate /\ p.battery_loss_rate <= 10)

\* The battery parameter checks inside OptimizationEngineV2._validate_input_data.
ParamsValidatedInEngine(p) ==
    /\ ~(p.battery_power_kW <= 0)
    /\ ~(p.battery_capacity_kWh <= 0)
    /\ (0 <= p.battery_loss_rate /\ p.battery_loss_rate < 10)

\* Variant of BackFill that leaves the row as it is.
BackFill_None(row, columns) == row

\* The back-filling of the columns a series lacks, applied to one row, in
\* the order of the code.
BackFill(row, columns) ==
    LET r1 == IF "JEPX_actual" \in columns THEN row
              ELSE [row EXCEPT !.JEPX_actual = row.JEPX_prediction]
        r2 == IF "EPRX1_prediction" \in columns THEN r1
              ELSE [r1 EXCEPT !.EPRX1_prediction = 0]
        r3 == IF "EPRX1_actual" \in columns THEN r2
              ELSE [r2 EXCEPT !.EPRX1_actual = r2.EPRX1_prediction]
        r4 == IF "EPRX3_prediction" \in columns THEN r3
              ELSE [r3 EXCEPT !.EPRX3_prediction = 0]
        r5 == IF "EPRX3_actual" \in columns THEN r4
              ELSE [r4 EXCEPT !.EPRX3_actual = r4.EPRX3_prediction]
    IN  IF "imbalance" \in columns THEN r5
        ELSE [r5 EXCEPT !.imbalance = r5.JEPX_actual]

\* The rows a series is made of.  A column the series lacks holds a value
\* that no code reads.
RawRows(d) == IF d.rows = "arbitrage" THEN ArbitrageRows ELSE PriceRows

HasNaN(row) == \E c \in DOMAIN row : row[c] = NaN

\* The rows of df_all as the daily loop sees them.  The desktop engines
\* back-fill and then drop every row with a NaN in a required column;
\* run_optimization takes the rows as they are.
CleanRows(e, d) ==
    IF e = "streamlit" THEN RawRows(d)
    ELSE {r \in {BackFill(raw, d.columns) : raw \in RawRows(d)} : ~HasNaN(r)}

\* _validate_input_data of the desktop engines and the column check of
\* run_optimization: "ok", or what the error is about.
validate_input_data(e, p, d) ==
    IF e = "streamlit"
    THEN IF required_cols \subseteq d.columns THEN "ok" ELSE "data"
    ELSE IF d.empty THEN "data"
    ELSE IF ~(critical_cols \subseteq d.columns) THEN "data"
    ELSE IF CleanRows(e, d) = {} THEN "data"
    ELSE IF e = "v2" /\ ~ParamsValidatedInEngine(p) THEN "params"
    ELSE "ok"

\* dict.get(key, default)
DictGet(dict, key, default) == IF key \in DOMAIN dict THEN dict[key] ELSE default
EmptyDict == [k \in {} |-> 0]

\* The fallback tariff of OptimizationEngineV2 (loss_rate 0.03).
DefaultWheelingData == [loss_rate |-> 30]

\* Variant of get_wheeling_data in which no lookup fails: an absent pair
\* gets the fallback tariff.
get_wheeling_data_Fallback(e, area_name, voltage_type) ==
    LET wheeling_data == DictGet(DictGet(WHEELING_DATA, area_name, EmptyDict),
                                 voltage_type, EmptyDict)
    IN  IF e = "v2" \/ DOMAIN wheeling_data = {}
        THEN [raises |-> FALSE, loss_rate |-> DefaultWheelingData.loss_rate]
        ELSE [raises |-> FALSE, loss_rate |-> wheeling_data.loss_rate]

\* The tariff lookup.  v1: WHEELING_DATA["areas"].get(area, {}).get(voltage,
\* {}), and "if not wheeling_data: raise ValueError".  v2: the import of
\* get_area_wheeling_data, which area_config does not define, raises
\* ImportError and the fallback tariff is returned.  run_optimization: the
\* same chain of .get and then .get("loss_rate", 0.0).
get_wheeling_data(e, area_name, voltage_type) ==
    LET wheeling_data == DictGet(DictGet(WHEELING_DATA, area_name, EmptyDict),
                                 voltage_type, EmptyDict)
    IN  CASE e = "v1" ->
                IF DOMAIN wheeling_data = {}
                THEN [raises |-> TRUE, loss_rate |-> KeyMissing]
                ELSE [raises |-> FALSE, loss_rate |-> wheeling_data.loss_rate]
          [] e = "v2" -> [raises |-> FALSE, loss_rate |-> DefaultWheelingData.loss_rate]
          [] OTHER -> [raises |-> FALSE, loss_rate |-> DictGet(wheeling_data, "loss_rate", 0)]

\* ------------------------------------------------------------ the daily loop
num_days == (total_slots + params.forecast_period - 1) \div params.forecast_period

\* Rows of window day_idx: start_i .. end_i - 1.  (V2 takes the rows of one
\* date as a window; every date of the model's series has forecast_period
\* rows, the last one possibly fewer.)
DaySlots(d) ==
    Min(d * params.forecast_period + params.forecast_period, total_slots)
        - d * params.forecast_period

\* The (date, slot) keys of the series in the order the rows come in.
InputKeys ==
    [ g \in 1 .. total_slots |->
        LET h == IF price_data.sorted THEN g ELSE total_slots + 1 - g
        IN  [date |-> (h - 1) \div params.forecast_period,
             slot |-> ((h - 1) % params.forecast_period) + 1] ]

KeyLess(a, b) == a.date < b.date \/ (a.date = b.date /\ a.slot < b.slot)

\* Variant of sort_values that keeps the order of the input.
sort_values_Unsorted(keys) == keys

\* df_all.sort_values(by=["date", "slot"]) on the keys.
sort_values(keys) ==
    [ g \in 1 .. Len(keys) |->
        CHOOSE k \in {keys[j] : j \in 1 .. Len(keys)} :
            Cardinality({j \in 1 .. Len(keys) : KeyLess(keys[j], k)}) = g - 1 ]

\* df_day of window d: the rows start_i .. end_i - 1 of the sorted series,
\* with prices.
DayRows(d) ==
    LET df_all == sort_values(InputKeys)
        start_i == d * params.forecast_period
    IN  { [i \in 1 .. DaySlots(d) |->
              [ date |-> df_all[start_i + i].date, slot |-> df_all[start_i + i].slot,
                JEPX_prediction |-> prices[i].JEPX_prediction,
                JEPX_actual |-> prices[i].JEPX_actual,
                EPRX1_prediction |-> prices[i].EPRX1_prediction,
                EPRX1_actual |-> prices[i].EPRX1_actual,
                EPRX3_prediction |-> prices[i].EPRX3_prediction,
                EPRX3_actual |-> prices[i].EPRX3_actual,
                imbalance |-> prices[i].imbalance ]] :
          prices \in [1 .. DaySlots(d) -> CleanRows(engine, price_data)] }

\* Opening SoC of the first window when it is taken from the parameters.
InitialCarryOver_FromParams(p, e) ==
    IF p.initial_soc_kwh = KeyMissing THEN Capacity(p) \div 2
    ELSE p.initial_soc_kwh * 1000

\* Opening SoC of the first window: 0.0, and for V2
\* params.get('initial_soc_kwh', capacity * 0.5).
InitialCarryOver(p, e) ==
    IF e # "v2" THEN 0
    ELSE IF p.initial_soc_kwh = KeyMissing THEN Capacity(p) \div 2
    ELSE p.initial_soc_kwh * 1000

Init ==
    /\ engine \in Engines
    /\ \E inp \in Inputs(engine) :
          /\ params = inp.params
          /\ price_data = inp.price_data
          /\ total_slots = inp.total_slots
    /\ pc = "ready"
    /\ day_idx = 0
    /\ carry_over_soc = InitialCarryOver(params, engine)
    /\ total_charge = 0
    /\ all_transactions = <<>>
    /\ failed_days = {}
    /\ is_cancelled = FALSE
    /\ cycles_after_day = <<>>
    /\ solved = <<>>
    /\ error_msg = ""
    /\ optimization_results = NoResults
    /\ signals = <<>>

\* Variant of on_optimization_failed that keeps the rows produced so far.
on_optimization_failed_KeepsPartial(partial) == Results(partial)

\* What the caller holds after optimization_failed(str): the signal carries
\* only the message, and MainWindow.on_optimization_failed sets
\* "self.optimization_results = None".  partial: the rows produced so far.
on_optimization_failed(partial) == NoResults

\* The desktop engines run in a thread that the GUI can cancel.
Cancellable(e) == e \in {"v1", "v2"}

\* What stops a run before its daily loop, or "ok".  Desktop:
\* MainWindow.run_optimization validates the parameters and shows a warning
\* if they are rejected; then run() validates the series and looks the
\* tariff up, and emits optimization_failed(str) if either raises.
\* run_optimization looks the tariff up and checks the columns.
RunSetup(e, p, d) ==
    IF e \in {"v1", "v2"} /\ ~validate_optimization_params(p) THEN "rejected"
    ELSE IF validate_input_data(e, p, d) # "ok" THEN validate_input_data(e, p, d)
    ELSE IF get_wheeling_data(e, p.target_area_name, p.voltage_type).raises THEN "config"
    ELSE "ok"

\* The signals of the desktop engines that the run's outcome is read from.
Progress(n) == [sig |-> "progress_updated", value |-> n]
Failed == [sig |-> "optimization_failed"]
Completed == [sig |-> "optimization_completed"]

\* Emissions happen in the desktop engines only.
Emit(e, sigs) == IF e \in {"v1", "v2"} THEN signals \o sigs ELSE signals

\* MainWindow.run_optimization: the parameters are validated, and a thread
\* is started for the engine unless they are rejected.  (run_optimization
\* of the Streamlit app is a plain call.)
run_optimization ==
    /\ pc = "ready"
    /\ IF RunSetup(engine, params, price_data) = "rejected"
       THEN pc' = "rejected" /\ error_msg' = "rejected"
       ELSE pc' = "started" /\ UNCHANGED error_msg
    /\ UNCHANGED <<engine, params, price_data, total_slots, day_idx, carry_over_soc,
                   total_charge, all_transactions, failed_days, is_cancelled,
                   cycles_after_day, solved, optimization_results, signals>>

\* Variant of SetupSignals in which a step that raises emits nothing.
SetupSignals_Silent(setup) ==
    CASE setup = "ok" -> <<Progress(0), Progress(10), Progress(20)>>
      [] setup = "config" -> <<Progress(0), Progress(10)>>
      [] OTHER -> <<Progress(0)>>

\* The progress values that run() emits around its setup steps: 0 first, 10
\* after the validation, 20 after the tariff lookup; a step that raises
\* ends the run with optimization_failed.
SetupSignals(setup) ==
    CASE setup = "ok" -> <<Progress(0), Progress(10), Progress(20)>>
      [] setup = "config" -> <<Progress(0), Progress(10), Failed>>
      [] OTHER -> <<Progress(0), Failed>>

\* "self.is_cancelled = False", the first statement of run().
ResetFlag(flag) == FALSE

\* run() from its first statement up to the daily loop.
StartRun ==
    /\ pc = "started"
    /\ is_cancelled' = ResetFlag(is_cancelled)
    /\ LET setup == RunSetup(engine, params, price_data)
       IN  /\ signals' = Emit(engine, SetupSignals(setup))
           /\ IF setup = "ok"
              THEN /\ pc' = IF num_days = 0 THEN "after_loop" ELSE "loop"
                   /\ params' =
                         [params EXCEPT !.loss_rate =
                             get_wheeling_data(engine, params.target_area_name,
                                               params.voltage_type).loss_rate]
                   /\ UNCHANGED error_msg
              ELSE /\ pc' = "failed"
                   /\ error_msg' = setup
                   /\ UNCHANGED params
    /\ UNCHANGED <<engine, price_data, total_slots, day_idx, carry_over_soc, total_charge,
                   all_transactions, failed_days, cycles_after_day, solved,
                   optimization_results>>

\* isRunning() of the engine thread: from start() until run() has returned.
isRunning == pc \in {"started", "loop", "after_loop"}

\* MainWindow.cancel_optimization (and closeEvent) while the engine thread
\* is running.
cancel_optimization ==
    /\ Cancellable(engine)
    /\ isRunning
    /\ ~is_cancelled
    /\ is_cancelled' = TRUE
    /\ UNCHANGED <<engine, params, price_data, total_slots, pc, day_idx, carry_over_soc,
                   total_charge, all_transactions, failed_days, cycles_after_day, solved,
                   error_msg, optimization_results, signals>>

\* Variant of CancelCheck that never sees the flag.
CancelCheck_Blind(flag) == FALSE

\* "if self.is_cancelled:" at the top of an iteration of the daily loop.
CancelCheck(flag) == flag

\* "if self.is_cancelled: raise InterruptedException" at the top of an
\* iteration; run() turns it into optimization_failed(str).
CancelObserved ==
    /\ pc = "loop"
    /\ CancelCheck(is_cancelled)
    /\ pc' = "failed"
    /\ error_msg' = "cancelled"
    /\ optimization_results' = on_optimization_failed(all_transactions)
    /\ signals' = Emit(engine, <<Failed>>)
    /\ UNCHANGED <<engine, params, price_data, total_slots, day_idx, carry_over_soc,
                   total_charge, all_transactions, failed_days, is_cancelled,
                   cycles_after_day, solved>>

\* Variant of YearlyLimitReached that never stops the loop.
YearlyLimitReached_Never(p, e, charged) == FALSE

\* "if (yearly_cycle_limit > 0) and (total_cycles_used > yearly_cycle_limit): break"
\* (V2 has no yearly check).
YearlyLimitReached(p, e, charged) ==
    /\ e \in {"v1", "streamlit"}
    /\ p.yearly_cycle_limit > 0
    /\ charged > p.yearly_cycle_limit * Capacity(p)

\* Variant of DayProgress that spreads 90 points over the windows.
DayProgress_Overrun(e, d) == 20 + (((d + 1) * 90) \div num_days)

\* The progress value of window d.  V1 emits 20 + int(60 * (d + 1) / num_days)
\* at the top of the iteration, before the window is solved; V2 emits
\* 20 + int((d + 1) / total_days * 70) after the window was solved.
DayProgress(e, d) ==
    IF e = "v1" THEN 20 + ((60 * (d + 1)) \div num_days)
    ELSE 20 + (((d + 1) * 70) \div num_days)

\* Position of the loop after iteration day_idx ended normally or by continue.
AfterIteration(stop) ==
    IF stop \/ day_idx + 1 >= num_days
    THEN pc' = "after_loop" /\ day_idx' = day_idx
    ELSE pc' = "loop" /\ day_idx' = day_idx + 1

\* One iteration of the daily loop whose window is solved and extracted.
SolveDay ==
    /\ pc = "loop"
    /\ ~CancelCheck(is_cancelled)
    /\ \E rows \in DayRows(day_idx) :
       \E plan \in OptimalPlans(rows, params, carry_over_soc, engine) :
       \E acts \in ActivationDraws(plan, params, engine) :
          LET results == DayResults(plan, acts, rows, carry_over_soc, params, engine, day_idx)
              charged == total_charge + DayChargeWh(results)
          IN  /\ ~DebugLogRaises(plan, day_idx, engine)
              /\ ~PnlRaises(plan, params, engine)
              /\ all_transactions' = all_transactions \o results
              /\ carry_over_soc' =
                    FinalSoc(plan, acts, Len(rows), carry_over_soc, params, engine)
              /\ total_charge' = charged
              /\ cycles_after_day' = Append(cycles_after_day, charged)
              /\ solved' = [rows |-> rows, plan |-> plan, initial_soc |-> carry_over_soc,
                            day |-> day_idx]
              /\ AfterIteration(YearlyLimitReached(params, engine, charged))
    /\ signals' = Emit(engine, <<Progress(DayProgress(engine, day_idx))>>)
    /\ UNCHANGED <<engine, params, price_data, total_slots, failed_days, is_cancelled,
                   error_msg, optimization_results>>

\* The backend's status for a window problem: Optimal needs a feasible
\* problem; any other status (or a raised solver error) can always occur.
SolverStatuses(rows, p, initial_soc) ==
    IF FeasiblePlans(rows, p, initial_soc) = {}
    THEN {"Infeasible"} ELSE {"Optimal", "Not Solved"}

\* How a window can fail: the solve ends with a status other than Optimal,
\* the solve raises, or (desktop engines) the extraction raises.
FailureKinds == {"NotOptimal", "SolverRaises", "ExtractionRaises"}

\* Variant of FailureAborts in which every failed window ends the run.
FailureAborts_Always(e, kind) == TRUE

\* What a failed window does to the run.  v1: every failure reaches run() as
\* an exception, run() emits optimization_failed(str) and MainWindow clears
\* optimization_results.  v2: "except Exception ... continue".
\* run_optimization: "continue" on a non-optimal status; an exception is
\* not caught.
FailureAborts(e, kind) == e = "v1" \/ (e = "streamlit" /\ kind # "NotOptimal")

\* One iteration of the daily loop whose window fails.
DayFails ==
    /\ pc = "loop"
    /\ ~CancelCheck(is_cancelled)
    /\ \E kind \in FailureKinds :
          /\ CASE kind = "NotOptimal" ->
                    \E rows \in DayRows(day_idx) :
                    \E st \in SolverStatuses(rows, params, carry_over_soc) : st # "Optimal"
                [] kind = "SolverRaises" -> TRUE
                [] OTHER ->
                    \E rows \in DayRows(day_idx) :
                    \E plan \in OptimalPlans(rows, params, carry_over_soc, engine) :
                        DebugLogRaises(plan, day_idx, engine) \/ PnlRaises(plan, params, engine)
          /\ failed_days' = failed_days \cup {[day |-> day_idx, kind |-> kind]}
          /\ IF FailureAborts(engine, kind)
             THEN /\ pc' = "failed"
                  /\ error_msg' = kind
                  /\ optimization_results' =
                        IF engine = "streamlit" THEN NoResults
                        ELSE on_optimization_failed(all_transactions)
                  /\ signals' =
                        Emit(engine, <<Progress(DayProgress(engine, day_idx)), Failed>>)
                  /\ UNCHANGED day_idx
             ELSE /\ AfterIteration(FALSE)
                  /\ UNCHANGED <<error_msg, optimization_results, signals>>
    /\ UNCHANGED <<engine, params, price_data, total_slots, carry_over_soc, total_charge,
                   all_transactions, is_cancelled, cycles_after_day, solved>>

\* "if not all_results: raise ValueError" (V2 only).
NoResultsRaises(e, results) == e = "v2" /\ results = <<>>

\* After the loop: the results are handed to the caller
\* (optimization_completed / return value), or V2 finds it has none.
Complete ==
    /\ pc = "after_loop"
    /\ IF NoResultsRaises(engine, all_transactions)
       THEN /\ pc' = "failed"
            /\ error_msg' = "no_results"
            /\ optimization_results' = on_optimization_failed(all_transactions)
            /\ signals' = Emit(engine, <<Failed>>)
       ELSE /\ pc' = "completed"
            /\ UNCHANGED error_msg
            /\ optimization_results' = Results(all_transactions)
            /\ signals' = Emit(engine, <<Progress(90), Progress(100), Completed>>)
    /\ UNCHANGED <<engine, params, price_data, total_slots, day_idx, carry_over_soc,
                   total_charge, all_transactions, failed_days, is_cancelled,
                   cycles_after_day, solved>>

Next ==
    \/ run_optimization
    \/ StartRun
    \/ cancel_optimization
    \/ CancelObserved
    \/ SolveDay
    \/ DayFails
    \/ Complete

Spec == Init /\ [][Next]_vars

\* The same runs, one variant at a time.
\* The steps of the engine thread.  run() is straight-line code around a
\* for loop over the windows, and every window's solve is a branch-and-bound
\* search over a finite problem, so a running thread keeps taking steps;
\* nothing obliges the GUI to cancel.
RunStep == StartRun \/ CancelObserved \/ SolveDay \/ DayFails \/ Complete

\* Desktop runs with the base parameters over the shorter series that have
\* every column, with a thread that keeps running.
InitDesktop ==
    /\ Init
    /\ engine \in {"v1", "v2"}
    /\ params = BaseParams
    /\ price_data.columns = required_cols
    /\ price_data.sorted
    /\ total_slots < MaxTotalSlots
FairSpec == InitDesktop /\ [][Next]_vars /\ WF_vars(RunStep)

InitV1 == Init /\ engine = "v1"
SpecV1 == InitV1 /\ [][Next]_vars
InitV2 == Init /\ engine = "v2"
SpecV2 == InitV2 /\ [][Next]_vars
InitStreamlit == Init /\ engine = "streamlit"
SpecStreamlit == InitStreamlit /\ [][Next]_vars
\* ================================================================== claims
\* The energy quantities of a result row that are nonzero.
NonzeroQuantities(r) ==
    {f \in {"charge", "discharge", "eprx3"} :
        CASE f = "charge" -> r.charge_kWh # 0
          [] f = "discharge" -> r.discharge_kWh # 0
          [] OTHER -> r.EPRX3_kWh # 0}

\* C1 (as amended): in every result row of OptimizationEngine and of
\* run_optimization at most one of charge_kWh, discharge_kWh, EPRX3_kWh is
\* nonzero, and a nonzero one is the quantity of the row's action.
C1_AtMostOneQuantity ==
    engine \in {"v1", "streamlit"} =>
        \A k \in 1 .. Len(all_transactions) :
            /\ Cardinality(NonzeroQuantities(all_transactions[k])) <= 1
            /\ NonzeroQuantities(all_transactions[k]) \subseteq {all_transactions[k].action}

\* C1 witness: a desktop-engine schedule holding a charge and an eprx3 row
\* with their quantity nonzero, and an idle row with none.
C1_Witness ==
    /\ engine = "v1"
    /\ \A a \in {"charge", "eprx3"} :
          \E k \in 1 .. Len(all_transactions) :
              /\ all_transactions[k].action = a
              /\ NonzeroQuantities(all_transactions[k]) = {a}
    /\ \E k \in 1 .. Len(all_transactions) :
          /\ all_transactions[k].action = "idle"
          /\ NonzeroQuantities(all_transactions[k]) = {}

\* C1 as stated: exactly one of the three quantities is nonzero in every row.
C1_ExactlyOneQuantity ==
    engine \in {"v1", "streamlit"} =>
        \A k \in 1 .. Len(all_transactions) :
            /\ Cardinality(NonzeroQuantities(all_transactions[k])) = 1
            /\ NonzeroQuantities(all_transactions[k]) \subseteq {all_transactions[k].action}

\* C2: every result row of OptimizationEngine (solver SoC) and of
\* OptimizationEngineV2 (tracked actual SoC) has
\* 0 <= battery_level_kWh <= battery_capacity_kWh.
C2_SocWithinCapacity ==
    engine \in {"v1", "v2"} =>
        \A k \in 1 .. Len(all_transactions) :
            /\ all_transactions[k].battery_level_kWh >= 0
            /\ all_transactions[k].battery_level_kWh <= Capacity(params)

\* C2 witness: a V2 window, not the first, in which an eprx3 slot was not
\* activated and left the tracked SoC at capacity, and a later slot charges.
C2_Witness ==
    /\ engine = "v2"
    /\ \E j, k \in 1 .. Len(all_transactions) :
          /\ j < k
          /\ all_transactions[j].day = all_transactions[k].day
          /\ all_transactions[j].day > 0
          /\ all_transactions[j].action = "eprx3"
          /\ all_transactions[j].EPRX3_kWh = 0
          /\ all_transactions[j].battery_level_kWh = Capacity(params)
          /\ all_transactions[k].action = "charge"
          /\ all_transactions[k].charge_kWh > 0
          /\ all_transactions[k].battery_level_kWh = Capacity(params)

\* The SoC change a result row reports, from its action and quantities.
ReportedDelta(r, p) ==
    CASE r.action = "charge" -> r.charge_kWh
      [] r.action = "discharge" -> 0 - (r.discharge_kWh + r.loss_kWh)
      [] r.action = "eprx3" -> 0 - half_power_kWh(p)
      [] OTHER -> 0

\* C3: in OptimizationEngine's schedule, window boundaries included and the
\* first window opening at 0, the SoC after each slot is the SoC after the
\* previous slot changed by the flow of the slot's action.
C3_SocContinuity ==
    engine = "v1" =>
        \A k \in 1 .. Len(all_transactions) :
            all_transactions[k].battery_level_kWh =
                (IF k = 1 THEN 0 ELSE all_transactions[k - 1].battery_level_kWh)
                + ReportedDelta(all_transactions[k], params)

\* C3 witness: a completed schedule in which a window closes with energy
\* stored and the next window opens with an eprx3 slot, and which also
\* holds a charge and a discharge.
C3_Witness ==
    /\ engine = "v1"
    /\ pc = "completed"
    /\ \E k \in 1 .. (Len(optimization_results.results) - 1) :
          /\ optimization_results.results[k].day < optimization_results.results[k + 1].day
          /\ optimization_results.results[k].battery_level_kWh > 0
          /\ optimization_results.results[k + 1].action = "eprx3"
    /\ \E k \in 1 .. Len(optimization_results.results) : optimization_results.results[k].action = "charge"
    /\ \E k \in 1 .. Len(optimization_results.results) : optimization_results.results[k].action = "discharge"
\* The windows that have result rows, and the rows of one window.
DaysSolved == {all_transactions[k].day : k \in 1 .. Len(all_transactions)}
WindowIdx(d) == {k \in 1 .. Len(all_transactions) : all_transactions[k].day = d}
Eprx1Slots(d) ==
    {all_transactions[k].slot : k \in {j \in WindowIdx(d) : all_transactions[j].action = "eprx1"}}

\* C4 (as amended): within each window of OptimizationEngine's schedule the
\* eprx1 slots are the union of blocks of exactly eprx1_block_size
\* consecutive slots lying inside the window, whose starts are at least
\* eprx1_block_size + eprx1_block_cooldown slots apart.
C4_BlocksWithinWindows ==
    engine = "v1" =>
        \A d \in DaysSolved :
            \E B \in SUBSET Eprx1Slots(d) :
                /\ \A b \in B : b + params.eprx1_block_size - 1 <= Cardinality(WindowIdx(d))
                /\ \A b1, b2 \in B :
                      b1 < b2 => b2 - b1 >= params.eprx1_block_size + params.eprx1_block_cooldown
                /\ Eprx1Slots(d) = UNION {b .. (b + params.eprx1_block_size - 1) : b \in B}

\* C4 witness: with a cooldown, a window in which an eprx1 block is followed
\* by a slot that has a valid EPRX1 price and is not eprx1.
C4_Witness ==
    /\ engine = "v1"
    /\ params.eprx1_block_cooldown >= 1
    /\ \E k \in 1 .. (Len(all_transactions) - 1) :
          /\ all_transactions[k].day = all_transactions[k + 1].day
          /\ all_transactions[k].action = "eprx1"
          /\ all_transactions[k + 1].action # "eprx1"
          /\ all_transactions[k + 1].EPRX1_prediction > 0

IsEprx1(k) ==
    k \in 1 .. Len(all_transactions) /\ all_transactions[k].action = "eprx1"
RunStarts == {k \in 1 .. Len(all_transactions) : IsEprx1(k) /\ ~IsEprx1(k - 1)}
RunEnd(a) ==
    CHOOSE b \in a .. Len(all_transactions) :
        (\A j \in a .. b : IsEprx1(j)) /\ ~IsEprx1(b + 1)

\* C4 as stated: over the whole schedule every maximal run of eprx1 slots has
\* length exactly eprx1_block_size and is followed by a gap of at least
\* eprx1_block_cooldown slots.
C4_ExactRunsOverHorizon ==
    engine = "v1" =>
        \A a \in RunStarts :
            /\ RunEnd(a) - a + 1 = params.eprx1_block_size
            /\ \A a2 \in RunStarts :
                  a2 > a => a2 - RunEnd(a) - 1 >= params.eprx1_block_cooldown

\* C5: every eprx1 row of OptimizationEngine reports an end-of-slot SoC
\* within 0.4 .. 0.6 of the capacity.
C5_Eprx1SocInBand ==
    engine = "v1" =>
        \A k \in 1 .. Len(all_transactions) :
            all_transactions[k].action = "eprx1" =>
                /\ 10 * all_transactions[k].battery_level_kWh >= BandLowTenths * Capacity(params)
                /\ 10 * all_transactions[k].battery_level_kWh <= BandHighTenths * Capacity(params)

\* C5 witness: a schedule with an eprx1 row, and before it a row whose SoC
\* is outside the band.
C5_Witness ==
    /\ engine = "v1"
    /\ \E j, k \in 1 .. Len(all_transactions) :
          /\ j < k
          /\ all_transactions[k].action = "eprx1"
          /\ 10 * all_transactions[j].battery_level_kWh > BandHighTenths * Capacity(params)

\* Charged energy reported for window d, and up to the end of window d.
DayCharge(d) ==
    SumSeq([k \in 1 .. Len(all_transactions) |->
               IF all_transactions[k].day = d THEN all_transactions[k].charge_kWh ELSE 0])
CumCharge(d) ==
    SumSeq([k \in 1 .. Len(all_transactions) |->
               IF all_transactions[k].day <= d THEN all_transactions[k].charge_kWh ELSE 0])

\* C6: with daily_cycle_limit > 0 the charge_kWh of every solved window sum
\* to at most daily_cycle_limit * battery_capacity_kWh.
C6_DailyCycleCap ==
    params.daily_cycle_limit > 0 =>
        \A d \in DaysSolved : DayCharge(d) <= params.daily_cycle_limit * Capacity(params)

\* C6 witness: a window that charged exactly the cap, discharged, and closed
\* below capacity.
C6_Witness ==
    /\ engine = "v1"
    /\ params.daily_cycle_limit > 0
    /\ \E d \in DaysSolved :
          /\ DayCharge(d) = params.daily_cycle_limit * Capacity(params)
          /\ \E k \in WindowIdx(d) : all_transactions[k].action = "discharge"
          /\ \E k \in WindowIdx(d) :
                /\ k + 1 \notin WindowIdx(d)
                /\ all_transactions[k].battery_level_kWh < Capacity(params)

\* C7: with yearly_cycle_limit > 0, OptimizationEngine and run_optimization
\* produce no row for a window after a window at whose end the cumulative
\* charge exceeds yearly_cycle_limit * capacity; the loop is left at once,
\* and the rows of that window and of all earlier ones are kept and returned.
C7_YearlyLimitStops ==
    (engine \in {"v1", "streamlit"} /\ params.yearly_cycle_limit > 0) =>
        /\ \A d \in DaysSolved :
              (\E k \in 1 .. Len(all_transactions) : all_transactions[k].day > d)
                  => CumCharge(d) <= params.yearly_cycle_limit * Capacity(params)
        /\ \A j \in 1 .. Len(cycles_after_day) :
              cycles_after_day[j] > params.yearly_cycle_limit * Capacity(params)
                  => (j = Len(cycles_after_day) /\ pc \in {"after_loop", "completed"})
        /\ Len(cycles_after_day) = Cardinality(DaysSolved)
        /\ (cycles_after_day # <<>> =>
              cycles_after_day[Len(cycles_after_day)] = CumCharge(total_slots))
        /\ (pc = "completed" => optimization_results = Results(all_transactions))

\* C7 witness: a completed desktop run that left the loop over the yearly
\* limit with windows still unsolved.
C7_Witness ==
    /\ engine = "v1"
    /\ pc = "completed"
    /\ params.yearly_cycle_limit > 0
    /\ total_charge > params.yearly_cycle_limit * Capacity(params)
    /\ day_idx + 1 < num_days
    /\ optimization_results = Results(all_transactions)

\* C8: in every solved window no slot is eprx3 when its EPRX3_prediction is
\* null or zero, and every eprx1 slot lies in a started block all of whose
\* slots have a valid EPRX1_prediction.
C8_PriceGating ==
    solved # <<>> =>
        \A k \in WindowIdx(solved.day) :
            LET i == all_transactions[k].slot
                M == params.eprx1_block_size
            IN  /\ all_transactions[k].action = "eprx3" =>
                      ~InvalidPrice(solved.rows[i].EPRX3_prediction)
                /\ all_transactions[k].action = "eprx1" =>
                      \E b \in solved.plan.starts :
                          /\ b + 1 <= i /\ i <= b + M
                          /\ b + M <= Len(solved.rows)
                          /\ \A j \in (b + 1) .. (b + M) :
                                ~InvalidPrice(solved.rows[j].EPRX1_prediction)

\* C8 witness: with blocks of two slots, a solved window in which a slot
\* opens inside the SoC band with a valid EPRX1 price, the next slot's EPRX1
\* price is null or zero, and no block covers them.
C8_Witness ==
    /\ engine = "v1"
    /\ params.eprx1_block_size = 2
    /\ solved # <<>>
    /\ \E k \in WindowIdx(solved.day) :
          LET i == all_transactions[k].slot
          IN  /\ i >= 2 /\ i + 1 <= Len(solved.rows)
              /\ 10 * all_transactions[k - 1].battery_level_kWh >= BandLowTenths * Capacity(params)
              /\ 10 * all_transactions[k - 1].battery_level_kWh <= BandHighTenths * Capacity(params)
              /\ ~InvalidPrice(solved.rows[i].EPRX1_prediction)
              /\ InvalidPrice(solved.rows[i + 1].EPRX1_prediction)
              /\ all_transactions[k].action # "eprx1"

\* C9 (as amended): when OptimizationEngine.run fails (a window's solve ends
\* non-optimal or raises, or cancellation is observed), the caller is left
\* with no results at all: the rows of earlier windows are not handed over.
C9_FailureDiscardsResults ==
    (engine = "v1" /\ pc = "failed") => optimization_results = NoResults

\* C9 witness: a desktop run that failed on a non-optimal window after
\* earlier windows had produced rows.
C9_Witness ==
    /\ engine = "v1"
    /\ pc = "failed"
    /\ all_transactions # <<>>
    /\ \E f \in failed_days : f.kind = "NotOptimal" /\ f.day = day_idx
    /\ optimization_results = NoResults

\* C9 as stated: after a failure the caller holds the rows of the earlier
\* windows.
C9_PartialResultsReturned ==
    (engine = "v1" /\ pc = "failed" /\ all_transactions # <<>>)
        => optimization_results = Results(all_transactions)

\* C10 (as amended): OptimizationEngineV2 skips a failed window and goes on
\* with the next one, and reports failure only on cancellation or when no
\* window produced a row; run_optimization skips a non-optimal window
\* likewise and is ended only by an exception of the solve.  (Failures of
\* the run setup, before the first window, are not the subject.)
C10_FailedWindowSkipped ==
    engine \in {"v2", "streamlit"} =>
        /\ (pc = "failed" /\ error_msg \notin {"data", "params", "config"}) =>
              \/ engine = "v2" /\ (is_cancelled \/ all_transactions = <<>>)
              \/ /\ engine = "streamlit"
                 /\ \E f \in failed_days : f.day = day_idx /\ f.kind # "NotOptimal"
        /\ \A f \in failed_days :
              (engine = "v2" \/ f.kind = "NotOptimal") =>
                  /\ pc = "loop" => day_idx > f.day
                  /\ WindowIdx(f.day) = {}

\* C10 witness: a completed V2 run whose schedule has rows before and after
\* a failed window and none for it.
C10_Witness ==
    /\ engine = "v2"
    /\ pc = "completed"
    /\ \E f \in failed_days :
          /\ \E k \in 1 .. Len(optimization_results.results) : optimization_results.results[k].day < f.day
          /\ \E k \in 1 .. Len(optimization_results.results) : optimization_results.results[k].day > f.day
          /\ \A k \in 1 .. Len(optimization_results.results) : optimization_results.results[k].day # f.day

\* C10 as stated: once a window has failed, V2 and run_optimization solve no
\* later window and the run is reported as failed.
C10_FailureStopsRun ==
    engine \in {"v2", "streamlit"} =>
        \A f \in failed_days :
            /\ pc = "failed"
            /\ \A k \in 1 .. Len(all_transactions) : all_transactions[k].day < f.day

\* C11 (as amended): the desktop engines look at the cancellation flag at
\* the top of each iteration of the daily loop and nowhere else.  From an
\* iteration that begins with the flag set, the only step is the abort: no
\* window is solved or extracted, and the run ends as failed with the
\* cancellation message, which sets it apart from a solver failure.  A
\* request made after the last such look does not stop the run.
C11_CancelAbortsAtBoundary ==
    [][(pc = "loop" /\ is_cancelled) =>
          /\ pc' = "failed"
          /\ error_msg' = "cancelled"
          /\ all_transactions' = all_transactions
          /\ solved' = solved
          /\ failed_days' = failed_days
          /\ optimization_results' = NoResults]_vars

\* C11 witness: a V1 run cancelled between two windows: rows of the first
\* window exist, the remaining slots were never solved, the caller holds
\* nothing and is told of the cancellation.
C11_Witness ==
    /\ engine = "v1"
    /\ pc = "failed"
    /\ error_msg = "cancelled"
    /\ is_cancelled
    /\ all_transactions # <<>>
    /\ Len(all_transactions) < total_slots
    /\ failed_days = {}
    /\ optimization_results = NoResults

\* C11 as stated: a run during which cancellation was requested never ends
\* with optimization_completed.
C11_CancelledRunNeverCompletes ==
    (engine = "v1" /\ pc = "completed") => ~is_cancelled

\* The (date, slot) key of a result row.
KeyOf(r) == [date |-> r.date, slot |-> r.slot]

\* C12: OptimizationEngine and run_optimization sort the series by
\* (date, slot) and cut it into consecutive windows of forecast_period rows,
\* only the last of which may be shorter, solved in increasing order: a run
\* that completes without a failed window and without the yearly stop
\* returns exactly one row per row of the series, in ascending (date, slot)
\* order, row k belonging to window (k - 1) div forecast_period.
C12_OneRowPerSlotInOrder ==
    ( /\ engine \in {"v1", "streamlit"}
      /\ pc = "completed"
      /\ failed_days = {}
      /\ ~YearlyLimitReached(params, engine, total_charge) ) =>
        LET out == optimization_results.results
        IN  /\ Len(out) = total_slots
            /\ {KeyOf(out[k]) : k \in 1 .. Len(out)}
                  = {InputKeys[g] : g \in 1 .. total_slots}
            /\ \A k \in 1 .. (Len(out) - 1) : KeyLess(KeyOf(out[k]), KeyOf(out[k + 1]))
            /\ \A k \in 1 .. Len(out) : out[k].day = (k - 1) \div params.forecast_period

\* C12 witness: a completed V1 run over a series that came in reverse
\* order and was cut into a full window and a shorter last one.
C12_Witness ==
    /\ engine = "v1"
    /\ pc = "completed"
    /\ failed_days = {}
    /\ ~price_data.sorted
    /\ total_slots % params.forecast_period # 0
    /\ Len(optimization_results.results) = total_slots
    /\ optimization_results.results[total_slots].day = 1

\* The SoC reported by the last row of window d.
ClosingSoc(d) ==
    LET last == CHOOSE k \in WindowIdx(d) : \A j \in WindowIdx(d) : j <= k
    IN  all_transactions[last].battery_level_kWh

TariffAbsent(p) ==
    DOMAIN DictGet(DictGet(WHEELING_DATA, p.target_area_name, EmptyDict),
                   p.voltage_type, EmptyDict) = {}

\* The run has passed its setup: the daily loop was entered.
LoopEntered == pc \in {"loop", "after_loop", "completed"} \/ solved # <<>>

OutOfRange(p) ==
    \/ p.battery_power_kW <= 0
    \/ p.battery_capacity_kWh <= 0
    \/ ~(0 <= p.battery_loss_rate /\ p.battery_loss_rate < 10)

\* C15: on the path validate_optimization_params -> OptimizationEngine.run,
\* parameters with a battery value out of range (battery_loss_rate = 1
\* included) are rejected before any window is solved.
C15_OutOfRangeRejected ==
    (engine = "v1" /\ OutOfRange(params)) =>
        /\ ~LoopEntered
        /\ pc \in {"ready", "rejected"}

\* The schedule that the solver's plan of a window fixes by itself: the
\* rows extracted from the plan with nothing else left to chance.
ScheduleOf(wnd) ==
    DayResults(wnd.plan, [i \in 1 .. Len(wnd.plan.slots) |-> TRUE], wnd.rows,
               wnd.initial_soc, params, engine, wnd.day)

\* A step of the daily loop that solved and extracted a window.
WindowExtracted == Len(all_transactions') > Len(all_transactions)

\* The plan has a slot whose extracted action is eprx3.
HasEprx3(plan, e) ==
    \E i \in 1 .. Len(plan.slots) : ActionOf(plan.slots[i], e) = "eprx3"

NoForecast(row) ==
    /\ NaNToZero(row.JEPX_prediction) = 0
    /\ NaNToZero(row.EPRX1_prediction) = 0
    /\ NaNToZero(row.EPRX3_prediction) = 0

\* C17: when every forecast price of a window solved by OptimizationEngine
\* is zero or null, the solution taken from the solver has action idle in
\* every slot and battery_soc stays at the window's opening value.
C17_ZeroForecastIdle ==
    (/\ engine = "v1"
     /\ solved # <<>>
     /\ \A i \in 1 .. Len(solved.rows) : NoForecast(solved.rows[i]))
    => \A i \in 1 .. Len(solved.rows) :
          /\ ActionOf(solved.plan.slots[i], engine) = "idle"
          /\ SolverSoc(solved.plan, i, solved.initial_soc, params) = solved.initial_soc

\* The rows that the run holds for window d.
WindowRows(d) == SelectSeq(all_transactions, LAMBDA r : r.day = d)

\* The window of the worked example: two slots with JEPX_prediction =
\* JEPX_actual = 10 then 20 and no EPRX1/EPRX3 prices, opening SoC 0, a
\* capacity that holds one slot's full charge.
ArbitrageWindow ==
    /\ solved # <<>>
    /\ Len(solved.rows) = 2
    /\ \A i \in 1 .. 2 :
          /\ solved.rows[i].JEPX_prediction = 10 * i
          /\ solved.rows[i].JEPX_actual = 10 * i
          /\ solved.rows[i].EPRX1_prediction = 0
          /\ solved.rows[i].EPRX3_prediction = 0
    /\ solved.initial_soc = 0
    /\ Capacity(params) >= half_power_kWh(params)
    /\ Len(WindowRows(solved.day)) = 2

\* Yen paid for buying one slot's full charge at 10 yen/kWh, tax included,
\* grossed up by the wheeling loss, as round() reports it.
PurchaseCost ==
    RoundHalfEven(10 * TaxNum * half_power_kWh(params), TaxDen * (1000 - params.loss_rate))

\* Yen received for selling that energy less the battery loss at 20 yen/kWh,
\* tax included, as round() reports it.
SaleValue ==
    RoundHalfEven(20 * TaxNum * half_power_kWh(params) * (10 - params.battery_loss_rate),
                  TaxDen * 10 * 1000)

\* C18: on the two-slot window with JEPX prices 10 then 20, no EPRX prices
\* and opening SoC 0, OptimizationEngine schedules charge then discharge,
\* and the window's settlement PnL is positive and equals the slot-2 sale
\* value after battery loss minus the slot-1 purchase cost grossed up by
\* the wheeling loss (each settled slot being rounded to whole yen).
C18_ArbitrageCycle ==
    (engine = "v1" /\ ArbitrageWindow) =>
        LET w == WindowRows(solved.day)
            total == w[1].Total_Daily_PnL + w[2].Total_Daily_PnL
        IN  /\ w[1].action = "charge"
            /\ w[2].action = "discharge"
            /\ w[1].charge_kWh = half_power_kWh(params)
            /\ total > 0
            /\ total = SaleValue - PurchaseCost

\* C18 witness: the worked example was solved and settled by V1.
C18_Witness ==
    /\ engine = "v1"
    /\ ArbitrageWindow
    /\ WindowRows(solved.day)[2].Total_Daily_PnL = SaleValue
    /\ SaleValue > PurchaseCost
    /\ PurchaseCost > 0

\* C19: for the rows that a desktop run hands over, the Total_Monthly_PnL of
\* the months of _generate_monthly_summary add up to the Total_Daily_PnL of
\* _generate_summary: every row is counted in exactly one month.
C19_MonthlySumsToTotal ==
    (engine \in {"v1", "v2"} /\ optimization_results.held
     /\ optimization_results.results # <<>>) =>
        LET m == optimization_results.monthly_summary
        IN  /\ SumSeq([k \in 1 .. Len(m) |-> m[k].Total_Monthly_PnL])
                  = optimization_results.summary.Total_Daily_PnL
            /\ SumSeq([k \in 1 .. Len(m) |->
                          Len(MonthGroup(optimization_results.results, m[k].Month))])
                  = optimization_results.summary.Total_Slots

\* C19 witness: a completed V1 run whose rows fall in two months, each with a
\* non-zero monthly PnL.
C19_Witness ==
    /\ engine = "v1"
    /\ pc = "completed"
    /\ optimization_results.held
    /\ Len(optimization_results.monthly_summary) = 2
    /\ \A k \in 1 .. 2 : optimization_results.monthly_summary[k].Total_Monthly_PnL # 0
    /\ optimization_results.summary.Total_Daily_PnL
          = optimization_results.monthly_summary[1].Total_Monthly_PnL
            + optimization_results.monthly_summary[2].Total_Monthly_PnL

\* A row carries the back-filled values for the columns that the series
\* lacks: actual mirrors prediction, an absent prediction is 0, imbalance
\* mirrors the JEPX price.
BackFilled(row, columns) ==
    /\ "JEPX_actual" \notin columns => row.JEPX_actual = row.JEPX_prediction
    /\ "EPRX1_prediction" \notin columns => row.EPRX1_prediction = 0
    /\ "EPRX1_actual" \notin columns => row.EPRX1_actual = row.EPRX1_prediction
    /\ "EPRX3_prediction" \notin columns => row.EPRX3_prediction = 0
    /\ "EPRX3_actual" \notin columns => row.EPRX3_actual = row.EPRX3_prediction
    /\ "imbalance" \notin columns => row.imbalance = row.JEPX_actual

\* C20: once OptimizationEngine.run has validated its input, an empty
\* series or one that lacks date, slot or JEPX_prediction has ended the run
\* with a data error before any window; a series that has the critical
\* columns and lacks other columns has not ended with a data error, and the
\* rows that reach the windows carry the back-filled values.
C20_CriticalColumnsOnly ==
    (engine = "v1" /\ pc \notin {"ready", "started", "rejected"}) =>
        /\ (price_data.empty \/ ~(critical_cols \subseteq price_data.columns)) =>
              /\ pc = "failed"
              /\ error_msg = "data"
              /\ solved = <<>>
              /\ all_transactions = <<>>
        /\ (~price_data.empty /\ critical_cols \subseteq price_data.columns) =>
              /\ error_msg # "data"
              /\ solved # <<>> =>
                    \A i \in 1 .. Len(solved.rows) :
                        BackFilled(solved.rows[i], price_data.columns)

\* C20 witness: a V1 run on a series that has the critical columns only has
\* solved a window holding a row whose JEPX_actual was copied from a
\* JEPX_prediction that differs from every actual price of the series.
C20_Witness ==
    /\ engine = "v1"
    /\ price_data.columns = critical_cols
    /\ pc = "completed"
    /\ solved # <<>>
    /\ \E i \in 1 .. Len(solved.rows) :
          /\ solved.rows[i].JEPX_prediction = 3
          /\ solved.rows[i].JEPX_actual = 3
          /\ solved.rows[i].imbalance = 3

\* The terminal signals among the emissions.
IsTerminal(s) == s.sig \in {"optimization_completed", "optimization_failed"}
Terminals == SelectSeq(signals, IsTerminal)

\* The run has ended: run() has emitted a terminal signal.
Ended == pc \in {"completed", "failed"}

\* At most one terminal signal, emitted when the run ends and last of all
\* emissions; optimization_completed goes with the results, the summary and
\* the monthly summary, optimization_failed with an error message.
OneTerminalSignal ==
    /\ Len(Terminals) = IF Ended THEN 1 ELSE 0
    /\ Ended =>
          /\ IsTerminal(signals[Len(signals)])
          /\ (signals[Len(signals)] = Completed) <=> (pc = "completed")
          /\ pc = "completed" =>
                /\ optimization_results = Results(all_transactions)
                /\ error_msg = ""
          /\ pc = "failed" =>
                /\ error_msg # ""
                /\ optimization_results = NoResults

\* C21: every started run of a desktop engine ends, and when it has ended
\* it has emitted exactly one terminal signal, optimization_completed (with
\* results, summary and monthly summary) or optimization_failed (with an
\* error message), after which nothing more is emitted; until then it has
\* emitted none.
C21_OneTerminalSignal ==
    /\ [](OneTerminalSignal)
    /\ [][Ended => signals' = signals]_vars
    /\ (pc = "started") ~> Ended

\* C21 witness: a V2 run that skipped a failed window, emitted progress and
\* ended with optimization_completed as its only terminal signal.
C21_Witness ==
    /\ engine = "v2"
    /\ pc = "completed"
    /\ failed_days # {}
    /\ Len(Terminals) = 1
    /\ signals[Len(signals)] = Completed
    /\ Len(signals) > 6

\* The action sequence of a plan.
ActionsOf(plan, e) == [i \in 1 .. Len(plan.slots) |-> ActionOf(plan.slots[i], e)]

\* The rows appended by the step, and whether slot i of them is an eprx3
\* slot whose draw did not activate.
NewRows == SubSeq(all_transactions', Len(all_transactions) + 1, Len(all_transactions'))
NotActivated(r) == r.action = "eprx3" /\ r.EPRX3_kWh = 0

\* C22 (as amended): in OptimizationEngineV2 the draws of a window are made
\* after its MILP was solved: the plan is optimal for the SoC the window
\* opened with and the reported actions are the plan's, whatever the draws.
\* The draws do reach later windows: the SoC handed to the next window is
\* the tracked actual SoC, which is never below the plan's closing SoC,
\* equals it when every eprx3 slot activated, and exceeds it when the
\* window closes on an eprx3 slot that did not activate.
C22_DrawsReachLaterWindowsOnly ==
    [][(WindowExtracted /\ engine = "v2") =>
          LET n == Len(solved'.rows)
              closing == SolverSoc(solved'.plan, n, solved'.initial_soc, params)
          IN  /\ solved'.initial_soc = carry_over_soc
              /\ solved'.plan \in OptimalPlans(solved'.rows, params, carry_over_soc, engine)
              /\ \A i \in 1 .. n : NewRows[i].action = ActionsOf(solved'.plan, engine)[i]
              /\ carry_over_soc' >= closing
              /\ (\A i \in 1 .. n : ~NotActivated(NewRows[i])) => carry_over_soc' = closing
              /\ NotActivated(NewRows[n]) => carry_over_soc' > closing]_vars

\* C22 witness: the first V2 window closed on an eprx3 slot that did not
\* activate, and the second window was solved from the SoC this left.
C22_Witness ==
    /\ engine = "v2"
    /\ solved # <<>>
    /\ solved.day = 1
    /\ \E k \in 1 .. Len(all_transactions) :
          /\ all_transactions[k].day = 0
          /\ all_transactions[k + 1].day = 1
          /\ NotActivated(all_transactions[k])
          /\ solved.initial_soc = all_transactions[k].battery_level_kWh
    /\ carry_over_soc = ActualSoc(solved.plan, [i \in 1 .. Len(solved.rows) |-> TRUE],
                                  Len(solved.rows), solved.initial_soc, params)

\* C22 as stated: the actions of the window after the first are those of a
\* solution of the MILP that the run with every draw activated would pose,
\* whose opening SoC is the closing SoC of the first window's plan.
C22_DrawsNeverReachDecisions ==
    [][(/\ WindowExtracted
        /\ engine = "v2"
        /\ solved # <<>>
        /\ solved.day = 0
        /\ solved'.day = 1)
       => \E q \in OptimalPlans(solved'.rows, params,
                                SolverSoc(solved.plan, Len(solved.rows),
                                          solved.initial_soc, params), engine) :
             ActionsOf(q, engine) = ActionsOf(solved'.plan, engine)]_vars

\* C23: with yearly_cycle_limit > 0, OptimizationEngineV2 produces no row
\* for a window after a window at whose end the cumulative charge exceeds
\* yearly_cycle_limit * capacity.
C23_V2YearlyLimitStops ==
    (engine = "v2" /\ params.yearly_cycle_limit > 0) =>
        \A d \in DaysSolved :
            (\E k \in 1 .. Len(all_transactions) : all_transactions[k].day > d)
                => CumCharge(d) <= params.yearly_cycle_limit * Capacity(params)

\* C24: every eprx1 row of OptimizationEngineV2 reports an actual SoC
\* (battery_level_kWh) within 0.4 .. 0.6 of the capacity, whatever the
\* activation rate and the draws.
C24_V2Eprx1ActualSocInBand ==
    engine = "v2" =>
        \A k \in 1 .. Len(all_transactions) :
            all_transactions[k].action = "eprx1" =>
                /\ 10 * all_transactions[k].battery_level_kWh >= BandLowTenths * Capacity(params)
                /\ 10 * all_transactions[k].battery_level_kWh <= BandHighTenths * Capacity(params)

\* The PnL components of a row that are not zero.
NonzeroPnl(r) == {c \in {"JEPX_PnL", "EPRX1_PnL", "EPRX3_PnL"} : r[c] # 0}

\* The PnL of result row r, settled on input row in, is as C25 says.
PnlMatchesAction(r, in) ==
    /\ r.Total_Daily_PnL = r.JEPX_PnL + r.EPRX1_PnL + r.EPRX3_PnL
    /\ Cardinality(NonzeroPnl(r)) <= 1
    /\ r.JEPX_PnL # 0 => r.action \in {"charge", "discharge"}
    /\ r.EPRX1_PnL # 0 => r.action = "eprx1"
    /\ r.EPRX3_PnL # 0 => r.action = "eprx3"
    /\ r.action = "idle" => NonzeroPnl(r) = {}
    /\ r.action = "charge" =>
          r.JEPX_PnL = 0 - RoundHalfEven(in.JEPX_actual * TaxNum * r.charge_kWh,
                                         TaxDen * (1000 - params.loss_rate))
    /\ r.action = "discharge" =>
          r.JEPX_PnL = RoundHalfEven(in.JEPX_actual * TaxNum * r.discharge_kWh, TaxDen * 1000)
    /\ r.action = "eprx1" =>
          r.EPRX1_PnL = RoundHalfEven(in.EPRX1_actual * TaxNum * params.battery_power_kW, TaxDen)

\* C25: in every row that OptimizationEngine settles, Total_Daily_PnL is the
\* sum of JEPX_PnL, EPRX1_PnL and EPRX3_PnL, at most one of them is not zero
\* and it is the one of the row's action: JEPX_PnL for charge (the cost
\* -JEPX_actual * TAX * charged / (1 - wheeling loss)) and discharge,
\* EPRX1_PnL for eprx1 (EPRX1_actual * TAX * power), EPRX3_PnL for eprx3,
\* none for idle.
C25_PnlMatchesAction ==
    (engine = "v1" /\ solved # <<>> /\ Len(WindowRows(solved.day)) = Len(solved.rows)) =>
        \A i \in 1 .. Len(solved.rows) :
            PnlMatchesAction(WindowRows(solved.day)[i], solved.rows[i])

\* C25 witness: a V1 window settled an eprx1 slot at its capacity price and
\* a charge or discharge slot at a JEPX amount.
C25_Witness ==
    /\ engine = "v1"
    /\ solved # <<>>
    /\ Len(WindowRows(solved.day)) = Len(solved.rows)
    /\ \E i, j \in 1 .. Len(solved.rows) :
          /\ WindowRows(solved.day)[i].action = "eprx1"
          /\ WindowRows(solved.day)[i].EPRX1_PnL > 0
          /\ WindowRows(solved.day)[j].action \in {"charge", "discharge"}
          /\ WindowRows(solved.day)[j].JEPX_PnL # 0

\* The SoC that row k of a V1 run started from: the level reported by the
\* row before it, or the opening SoC of the run.
StartSoc(k) ==
    IF k = 1 THEN InitialCarryOver(params, "v1") ELSE all_transactions[k - 1].battery_level_kWh

\* C26: in OptimizationEngine every eprx3 row takes the fixed maximum from
\* the battery: the SoC falls by exactly half_power_kWh over the slot, the
\* slot started with at least that much, EPRX3_kWh is half_power_kWh *
\* (1 - battery_loss_rate) and loss_kWh is half_power_kWh * battery_loss_rate.
C26_Eprx3FixedAmount ==
    engine = "v1" =>
        \A k \in 1 .. Len(all_transactions) :
            all_transactions[k].action = "eprx3" =>
                /\ StartSoc(k) - all_transactions[k].battery_level_kWh = half_power_kWh(params)
                /\ StartSoc(k) >= half_power_kWh(params)
                /\ 10 * all_transactions[k].EPRX3_kWh
                      = half_power_kWh(params) * (10 - params.battery_loss_rate)
                /\ 10 * all_transactions[k].loss_kWh
                      = half_power_kWh(params) * params.battery_loss_rate
                /\ all_transactions[k].charge_kWh = 0
                /\ all_transactions[k].discharge_kWh = 0

\* C26 witness: a V1 eprx3 row that emptied a battery holding exactly
\* half_power_kWh, after a row that had charged it.
C26_Witness ==
    /\ engine = "v1"
    /\ \E k \in 2 .. Len(all_transactions) :
          /\ all_transactions[k].action = "eprx3"
          /\ all_transactions[k - 1].action = "charge"
          /\ StartSoc(k) = half_power_kWh(params)
          /\ all_transactions[k].battery_level_kWh = 0
          /\ all_transactions[k].EPRX3_kWh > 0
          /\ all_transactions[k].loss_kWh > 0

\* C27: a cancellation requested while the engine thread is running stays
\* requested for as long as the thread runs: no step takes is_cancelled
\* back to FALSE before the terminal signal.
C27_CancelNeverLost ==
    [][(Cancellable(engine) /\ isRunning /\ is_cancelled) => is_cancelled']_vars

\* The assignment in which no block starts and every slot is idle.
AllIdle(rows) ==
    [starts |-> {}, slots |-> [i \in 1 .. Len(rows) |-> Choice("is_idle", 0, 0)]]

ActualDelta(r) ==
    CASE r.action = "charge" -> r.charge_kWh
      [] r.action = "discharge" -> 0 - (r.discharge_kWh + r.loss_kWh)
      [] r.action = "eprx3" -> 0 - (r.EPRX3_kWh + r.loss_kWh)
      [] OTHER -> 0

\* C29: in OptimizationEngineV2's schedule the battery level after each slot
\* is the level after the previous slot (the opening SoC for the first)
\* changed by the energy the row reports; the clamp never alters it.
C29_V2ActualSocContinuity ==
    engine = "v2" =>
        \A k \in 1 .. Len(all_transactions) :
            all_transactions[k].battery_level_kWh =
                (IF k = 1 THEN InitialCarryOver(params, "v2")
                 ELSE all_transactions[k - 1].battery_level_kWh)
                + ActualDelta(all_transactions[k])

\* The values emitted on progress_updated, in order.
IsProgress(s) == s.sig = "progress_updated"
ProgressValues ==
    [k \in 1 .. Len(SelectSeq(signals, IsProgress)) |-> SelectSeq(signals, IsProgress)[k].value]

\* C30: the values that a desktop run emits on progress_updated never
\* decrease and lie in 0 .. 100, and 100 is emitted only by a run that ends
\* with optimization_completed, as the emission just before that signal.
C30_ProgressMonotone ==
    engine \in {"v1", "v2"} =>
        /\ \A k \in 1 .. Len(ProgressValues) :
              /\ ProgressValues[k] \in 0 .. 100
              /\ k > 1 => ProgressValues[k - 1] <= ProgressValues[k]
        /\ \A k \in 1 .. Len(signals) :
              (IsProgress(signals[k]) /\ signals[k].value = 100) =>
                  /\ pc = "completed"
                  /\ k + 1 = Len(signals)
                  /\ signals[k + 1] = Completed
        /\ pc = "completed" => ProgressValues[Len(ProgressValues)] = 100
        /\ pc = "failed" => \A k \in 1 .. Len(ProgressValues) : ProgressValues[k] < 100

\* C30 witness: a V1 run that left the loop over the yearly limit with
\* windows still unsolved and went from a window's progress on to 90, 100
\* and optimization_completed.
C30_Witness ==
    /\ engine = "v1"
    /\ pc = "completed"
    /\ params.yearly_cycle_limit > 0
    /\ Len(cycles_after_day) < num_days
    /\ Len(ProgressValues) = 5 + Len(cycles_after_day)
    /\ ProgressValues[Len(ProgressValues) - 2] < 80
    /\ signals[Len(signals)] = Completed
====
